---- MODULE Spec2Model ----
(***************************************************************************)
(* One-time gist uploader (src/src/lib/actions.ts): the token store, the  *)
(* three server actions generateToken, validateToken and uploadFiles, and *)
(* the path reconstruction done by uploadFiles.                           *)
(*                                                                         *)
(* Strings that the code takes apart (file names, directory paths) are    *)
(* sequences of characters.  A server action is cut into steps at the     *)
(* store and network calls it awaits; the steps of the requests of         *)
(* different clients interleave freely.                                    *)
(***************************************************************************)
EXTENDS Integers, Sequences, FiniteSets, TLC

VARIABLES
  store,        \* the "tokens" collection: documents in insertion order
  now,          \* the wall clock, in milliseconds (Date.now())
  githubToken,  \* process.env.GITHUB_TOKEN is configured
  adminPassword, \* process.env.ADMIN_PASSWORD
  gists,        \* the gists created so far at the external API, in order
  req,          \* the request in flight of each client, if it has one
  ret           \* the response the last step returned, if it returned one

vars == <<store, now, githubToken, adminPassword, gists, req, ret>>

(***************************************************************************)
(* Bounds of the model.                                                    *)
(***************************************************************************)
MaxTicks == 2      \* clock advances
MaxGists == 2      \* gists created at the external API
MaxFiles == 2      \* files of one enumerated upload
MaxNameLen == 3    \* characters of one enumerated file name
MaxGistFiles == 3  \* files of one enumerated upload to a gist
MaxPwLen == 3      \* characters of one enumerated password
MaxDocs == 2       \* records of the store when nanoid may repeat a value

(***************************************************************************)
(* Program constants.                                                      *)
(***************************************************************************)
DayMs == 24 * 60 * 60 * 1000
HourMs == 60 * 60 * 1000

Null == <<>>

\* Token values: the one generateToken hands out, and one it never does.
TokenValues == {"t1"}
UnknownToken == "t0"
MissingToken == ""

Clients == {"c1", "c2"}

(***************************************************************************)
(* Strings.                                                                *)
(***************************************************************************)
Includes(s, c) == \E i \in 1..Len(s) : s[i] = c

\* String.prototype.split with a one-character separator: never empty, the
\* segments between the separators, empty segments kept.
Split(s, c) ==
  LET F[i \in 0..Len(s)] ==
        IF i = 0 THEN << <<>> >>
        ELSE IF s[i] = c THEN Append(F[i - 1], <<>>)
             ELSE [F[i - 1] EXCEPT ![Len(F[i - 1])] = Append(@, s[i])]
  IN F[Len(s)]

\* Array.prototype.join with a one-character separator.
Join(parts, c) ==
  LET F[i \in 0..Len(parts)] ==
        IF i = 0 THEN <<>>
        ELSE IF i = 1 THEN parts[1]
             ELSE F[i - 1] \o <<c>> \o parts[i]
  IN F[Len(parts)]

\* parts.pop() || "": the last element; parts without it is what remains.
Last(parts) == parts[Len(parts)]
ButLast(parts) == SubSeq(parts, 1, Len(parts) - 1)

(***************************************************************************)
(* Path reconstruction (uploadFiles).  A file is [name, path, content];    *)
(* path <<>> is a file with no path attribute (or an empty one: both are   *)
(* falsy), content is its bytes.  filesByPath, a Map, is the sequence of   *)
(* its entries in insertion order.                                         *)
(***************************************************************************)
\* The check without the backslash.
HasPathInfoSlash(file) ==
  \/ file.path # <<>>
  \/ Includes(file.name, "/")

HasPathInfo(file) ==
  \/ file.path # <<>>
  \/ Includes(file.name, "/")
  \/ Includes(file.name, "\\")

HasFolderStructure(files) == \E i \in 1..Len(files) : HasPathInfo(files[i])

\* ResolveFile with the tree view's fallback: a name without '/' or '\' is
\* split at its hyphens.
ResolveFileHyphen(file) ==
  IF file.path # <<>>
    THEN [path |-> file.path, name |-> file.name]
  ELSE IF Includes(file.name, "/")
    THEN LET parts == Split(file.name, "/")
         IN [path |-> Join(ButLast(parts), "/"), name |-> Last(parts)]
  ELSE IF Includes(file.name, "\\")
    THEN LET parts == Split(file.name, "\\")
         IN [path |-> Join(ButLast(parts), "\\"), name |-> Last(parts)]
  ELSE IF Includes(file.name, "-")
    THEN LET parts == Split(file.name, "-")
         IN [path |-> Join(ButLast(parts), "/"), name |-> Last(parts)]
  ELSE [path |-> <<>>, name |-> file.name]

ResolveFile(file) ==
  IF file.path # <<>>
    THEN [path |-> file.path, name |-> file.name]
  ELSE IF Includes(file.name, "/")
    THEN LET parts == Split(file.name, "/")
         IN [path |-> Join(ButLast(parts), "/"), name |-> Last(parts)]
  ELSE IF Includes(file.name, "\\")
    THEN LET parts == Split(file.name, "\\")
         IN [path |-> Join(ButLast(parts), "\\"), name |-> Last(parts)]
  ELSE [path |-> <<>>, name |-> file.name]

MapHas(m, path) == \E i \in 1..Len(m) : m[i].path = path

MapIndex(m, path) == CHOOSE i \in 1..Len(m) : m[i].path = path

\* new File([file], fileName, ...): the bytes of file under the reduced name,
\* with no path attribute.
NewFile(file, fileName) ==
  [name |-> fileName, path |-> <<>>, content |-> file.content]

\* filesByPath.set(filePath, []) when absent, then get(filePath).push(newFile).
MapPush(m, path, newFile) ==
  IF MapHas(m, path)
    THEN [m EXCEPT ![MapIndex(m, path)].files = Append(@, newFile)]
    ELSE Append(m, [path |-> path, files |-> <<newFile>>])

GroupFiles(files) ==
  LET F[i \in 0..Len(files)] ==
        IF i = 0 THEN <<>>
        ELSE LET r == ResolveFile(files[i])
             IN MapPush(F[i - 1], r.path, NewFile(files[i], r.name))
  IN F[Len(files)]

FilesByPath(files) ==
  IF HasFolderStructure(files)
    THEN GroupFiles(files)
    ELSE << [path |-> <<>>, files |-> files] >>

(***************************************************************************)
(* The token store.                                                        *)
(***************************************************************************)
\* The record with a window of no length.
NewDocNoWindow(token, createdAt) ==
  [token |-> token,
   createdAt |-> createdAt,
   expiresAt |-> createdAt,
   used |-> FALSE,
   expired |-> FALSE,
   gistUrl |-> Null]

\* The document generateToken inserts.
NewDoc(token, createdAt) ==
  [token |-> token,
   createdAt |-> createdAt,
   expiresAt |-> createdAt + DayMs,
   used |-> FALSE,
   expired |-> FALSE,
   gistUrl |-> Null]

\* findOne({ token }): the lookup without the used filter.
FindOneByToken(st, token) ==
  IF \E i \in 1..Len(st) : st[i].token = token
    THEN CHOOSE i \in 1..Len(st) :
           /\ st[i].token = token
           /\ \A j \in 1..(i - 1) : st[j].token # token
    ELSE 0

\* findOne({ token, used: false }): the position of the first match, 0 for null.
FindOneUnused(st, token) ==
  IF \E i \in 1..Len(st) : st[i].token = token /\ ~st[i].used
    THEN CHOOSE i \in 1..Len(st) :
           /\ st[i].token = token /\ ~st[i].used
           /\ \A j \in 1..(i - 1) : ~(st[j].token = token /\ ~st[j].used)
    ELSE 0

\* { $set: fields } on one document.
SetFields(doc, fields) ==
  [f \in DOMAIN doc \cup DOMAIN fields |->
     IF f \in DOMAIN fields THEN fields[f] ELSE doc[f]]

\* The update without its filter: every document is set.
UpdateOneUnfiltered(st, token, fields) ==
  [i \in 1..Len(st) |-> SetFields(st[i], fields)]

\* updateOne({ token }, { $set: fields }): the first document with that token.
UpdateOne(st, token, fields) ==
  IF \E i \in 1..Len(st) : st[i].token = token
    THEN LET i == CHOOSE k \in 1..Len(st) :
                    /\ st[k].token = token
                    /\ \A j \in 1..(k - 1) : st[j].token # token
         IN [st EXCEPT ![i] = SetFields(st[i], fields)]
    ELSE st

\* nanoid(10): one of the identifiers `values` that no document carries yet.
Nanoid(st, values) == values \ {st[i].token : i \in 1..Len(st)}

\* The expiry check reading the cached flag instead of the age.
TokenExpiredByFlag(doc, t) == doc.expired

\* tokenAge >= 24 * 60 * 60 * 1000
TokenExpiredInclusive(doc, t) == t - doc.createdAt >= DayMs

\* tokenAge > 24 * 60 * 60 * 1000
TokenExpired(doc, t) == t - doc.createdAt > DayMs

FileNames(files) == [i \in 1..Len(files) |-> files[i].name]

\* The $set of uploadFiles without the gist URL.
UsedFieldsNoUrl(gistUrl, t, files, hasFolderStructure) ==
  [used |-> TRUE,
   gistUrl |-> Null,
   usedAt |-> t,
   fileCount |-> Len(files),
   fileNames |-> FileNames(files),
   containsFolders |-> hasFolderStructure]

\* The $set of uploadFiles.
UsedFields(gistUrl, t, files, hasFolderStructure) ==
  [used |-> TRUE,
   gistUrl |-> gistUrl,
   usedAt |-> t,
   fileCount |-> Len(files),
   fileNames |-> FileNames(files),
   containsFolders |-> hasFolderStructure]

GistUrl(n) == <<"https://gist.github.com/", n>>

(***************************************************************************)
(* createGist: the files object submitted to the external API.  gistFiles *)
(* is the sequence of its own entries [name, content] in insertion order;  *)
(* fileNameCounts is a function from names to counters.  Both are plain    *)
(* objects, so a lookup also finds the members of Object.prototype.        *)
(***************************************************************************)
ObjectPrototype == { <<"constructor">> }

\* path.replace(/\\/g, '/')
NormalizedPath(path) ==
  [i \in 1..Len(path) |-> IF path[i] = "\\" THEN "/" ELSE path[i]]

\* The name without the normalisation of the path.
GistFileNameRaw(path, file) ==
  IF path # <<>>
    THEN path \o <<"/">> \o file.name
    ELSE file.name

\* gistFileName before the duplicate handling.
GistFileName(path, file) ==
  IF path # <<>>
    THEN NormalizedPath(path) \o <<"/">> \o file.name
    ELSE file.name

\* gistFiles[gistFileName] is truthy: every entry is an object.
GistFilesHas(gistFiles, gistFileName) ==
  \/ \E i \in 1..Len(gistFiles) : gistFiles[i].name = gistFileName
  \/ gistFileName \in ObjectPrototype

\* A counter is a number, NaN, an inherited function, or undefined.
Number(n) == [kind |-> "number", n |-> n]

NaN == [kind |-> "NaN", n |-> 0]

CountOf(fileNameCounts, gistFileName) ==
  IF gistFileName \in DOMAIN fileNameCounts THEN fileNameCounts[gistFileName]
  ELSE IF gistFileName \in ObjectPrototype THEN [kind |-> "function", n |-> 0]
  ELSE [kind |-> "undefined", n |-> 0]

Falsy(count) ==
  \/ count.kind \in {"undefined", "NaN"}
  \/ count.kind = "number" /\ count.n = 0

\* if (!fileNameCounts[gistFileName]) fileNameCounts[gistFileName] = 1;
\* fileNameCounts[gistFileName]++  (ToNumber of a function is NaN).
NextCount(fileNameCounts, gistFileName) ==
  LET count == IF Falsy(CountOf(fileNameCounts, gistFileName))
                 THEN Number(1)
                 ELSE CountOf(fileNameCounts, gistFileName)
  IN IF count.kind = "number" THEN Number(count.n + 1) ELSE NaN

Digits == <<"0", "1", "2", "3", "4", "5", "6", "7", "8", "9">>

RECURSIVE NumStr(_)
NumStr(n) ==
  IF n < 10 THEN <<Digits[n + 1]>>
  ELSE NumStr(n \div 10) \o <<Digits[(n % 10) + 1]>>

\* `${fileNameCounts[gistFileName]}`
CountStr(count) ==
  IF count.kind = "number" THEN NumStr(count.n) ELSE <<"N", "a", "N">>

\* gistFileName.lastIndexOf('.'), counted from 1; 0 for -1.
LastDotIndex(gistFileName) ==
  LET F[i \in 0..Len(gistFileName)] ==
        IF i = 0 THEN 0
        ELSE IF gistFileName[i] = "." THEN i ELSE F[i - 1]
  IN F[Len(gistFileName)]

\* The counter inserted before the last '.', or appended when there is none.
WithCounter(gistFileName, count) ==
  LET lastDotIndex == LastDotIndex(gistFileName)
      counter == <<" ", "(">> \o CountStr(count) \o <<")">>
  IN IF lastDotIndex # 0
       THEN SubSeq(gistFileName, 1, lastDotIndex - 1) \o counter
              \o SubSeq(gistFileName, lastDotIndex, Len(gistFileName))
       ELSE gistFileName \o counter

\* Bytes: "xFF" is a byte that is no UTF-8; any other byte is a character.
InvalidBytes == {"xFF"}

\* buffer.toString("utf-8") never throws: it decodes an invalid byte to U+FFFD.
ToStringThrows(buffer) == FALSE

BufferToString(buffer) ==
  [i \in 1..Len(buffer) |->
     IF buffer[i] \in InvalidBytes THEN "U+FFFD" ELSE buffer[i]]

Base64(buffer) == <<"base64", buffer>>

\* try { content = buffer.toString("utf-8") } catch { content = `Binary file: ...` }
Content(buffer) ==
  IF ToStringThrows(buffer)
    THEN <<"Binary file: ">> \o Base64(buffer) \o <<"...">>
    ELSE BufferToString(buffer)

\* gistFiles[gistFileName] = { content }: an own entry is replaced where it
\* stands, a new one is added at the end.
SetGistFile(gistFiles, gistFileName, content) ==
  IF \E i \in 1..Len(gistFiles) : gistFiles[i].name = gistFileName
    THEN [i \in 1..Len(gistFiles) |->
            IF gistFiles[i].name = gistFileName
              THEN [name |-> gistFileName, content |-> content]
              ELSE gistFiles[i]]
    ELSE Append(gistFiles, [name |-> gistFileName, content |-> content])

SetCount(fileNameCounts, gistFileName, count) ==
  [n \in DOMAIN fileNameCounts \cup {gistFileName} |->
     IF n = gistFileName THEN count ELSE fileNameCounts[n]]

\* The files in processing order: entry by entry of the Map, each with its path.
RECURSIVE PathFiles(_)
PathFiles(filesByPath) ==
  IF filesByPath = <<>> THEN <<>>
  ELSE [i \in 1..Len(Head(filesByPath).files) |->
          [path |-> Head(filesByPath).path, file |-> Head(filesByPath).files[i]]]
       \o PathFiles(Tail(filesByPath))

\* One turn of the inner loop.  processed keeps, per file, the name before
\* the duplicate handling (display) and the name it was stored under.
AddGistFile(b, path, file) ==
  LET display == GistFileName(path, file)
      duplicate == GistFilesHas(b.gistFiles, display)
      count == NextCount(b.fileNameCounts, display)
      gistFileName == IF duplicate THEN WithCounter(display, count) ELSE display
      content == Content(file.content)
  IN [gistFiles |-> SetGistFile(b.gistFiles, gistFileName, content),
      fileNameCounts |-> IF duplicate
                           THEN SetCount(b.fileNameCounts, display, count)
                           ELSE b.fileNameCounts,
      processed |-> Append(b.processed,
                           [display |-> display, name |-> gistFileName,
                            content |-> content])]

BuildGist(filesByPath) ==
  LET todo == PathFiles(filesByPath)
      F[i \in 0..Len(todo)] ==
        IF i = 0
          THEN [gistFiles |-> <<>>, fileNameCounts |-> [n \in {} |-> NaN],
                processed |-> <<>>]
          ELSE AddGistFile(F[i - 1], todo[i].path, todo[i].file)
  IN F[Len(todo)]

(***************************************************************************)
(* Inputs.                                                                 *)
(***************************************************************************)
File(name) == [name |-> name, path |-> <<>>, content |-> <<>>]

FileAt(path, name) == [name |-> name, path |-> path, content |-> <<>>]

FileWith(name, content) == [name |-> name, path |-> <<>>, content |-> content]

\* The file the folder picker builds for the entry `name` of the directory
\* currentPath: the full path as its name, currentPath as its path attribute.
FolderUploadFile(currentPath, name) ==
  FileAt(currentPath,
         IF currentPath # <<>> THEN currentPath \o <<"/">> \o name ELSE name)

\* The uploads the token life cycle is exercised with: no file, one flat
\* file, a folder upload of two files.
TokenUploads ==
  { <<>>,
    << File(<<"e">>) >>,
    << File(<<"a", "/", "c">>), File(<<"e">>) >> }

\* The upload of the path reconstruction example.
ExampleUpload ==
  << File(<<"a", "/", "b", "/", "c", ".", "txt">>),
     File(<<"a", "/", "b", "/", "d", ".", "txt">>),
     File(<<"e", ".", "txt">>) >>

NameChars == {"a", "/"}

SeqsUpTo(S, n) == UNION {[1..k -> S] : k \in 1..n}

\* Every name of up to MaxNameLen characters a and '/', and some names with
\* a hyphen, with backslashes, with both separators, or with a path
\* attribute (the folder picker sets it and leaves the full path in the name).
FilePool ==
  {File(n) : n \in SeqsUpTo(NameChars, MaxNameLen)}
  \cup { File(<<"a", "-", "b">>),
         File(<<"a", "\\", "b">>),
         File(<<"\\", "a">>),
         File(<<"a", "\\", "b", "\\", "c">>),
         File(<<"a", "/", "b", "\\", "c">>),
         File(<<"a", "\\", "b", "/", "c">>),
         FileAt(<<"p">>, <<"a">>),
         FolderUploadFile(<<"a">>, <<"b">>) }

FileUploads == SeqsUpTo(FilePool, MaxFiles) \cup {ExampleUpload}

\* The files the gist construction is exercised with: names that collide,
\* with and without an extension, under a directory with a dot, with either
\* separator, a name that looks renamed, a member of Object.prototype; text
\* and bytes that are no UTF-8.
NotesTxt == <<"n", ".", "t">>

GistPool ==
  { FileWith(NotesTxt, <<"h">>),
    FileWith(NotesTxt, <<"xFF", "h">>),
    FileWith(<<"n", " ", "(", "2", ")", ".", "t">>, <<"i">>),
    FileWith(<<"n">>, <<"h">>),
    FileWith(<<"x", "/">> \o NotesTxt, <<"h">>),
    FileWith(<<"x", ".", "y", "/", "n">>, <<"i">>),
    FileWith(<<"a", "/", "b", "/", "c", ".", "t">>, <<"h">>),
    FileWith(<<"a", "\\", "b", "\\", "c", ".", "t">>, <<"i">>),
    FileWith(<<"constructor">>, <<"h">>) }

GistUploads == SeqsUpTo(GistPool, MaxGistFiles)

(***************************************************************************)
(* State.                                                                  *)
(***************************************************************************)
Idle ==
  [pc |-> "idle", token |-> MissingToken, files |-> <<>>,
   filesByPath |-> <<>>, hasFolderStructure |-> FALSE, processed |-> <<>>,
   gistUrl |-> Null]

NoResponse ==
  [op |-> "none", token |-> MissingToken, result |-> "none", gistUrl |-> Null]

\* A value of the admin gate: undefined, or a string.
Undefined == [type |-> "undefined", value |-> <<>>]

String(s) == [type |-> "string", value |-> s]

Init ==
  /\ store = <<>>
  /\ now = 0
  /\ githubToken \in BOOLEAN
  /\ adminPassword = Undefined
  /\ gists = <<>>
  /\ req = [c \in Clients |-> Idle]
  /\ ret = NoResponse

\* The clock advances by an hour or by a day.
Ticks(t) == (t \div DayMs) + ((t % DayMs) \div HourMs)

Tick(d) ==
  /\ Ticks(now + d) <= MaxTicks
  /\ now' = now + d
  /\ ret' = NoResponse
  /\ UNCHANGED <<store, githubToken, gists, req, adminPassword>>

(***************************************************************************)
(* generateToken                                                           *)
(***************************************************************************)
\* token is what nanoid(10) returned; storeOk = FALSE is a connect or an
\* insert that throws, which the catch turns into "Failed to generate token".
Generated(token, result) ==
  [op |-> "generateToken", token |-> token, result |-> result, gistUrl |-> Null]

GenerateToken(token, storeOk) ==
  /\ store' = IF storeOk THEN Append(store, NewDoc(token, now)) ELSE store
  /\ ret' = IF storeOk
              THEN Generated(token, "token")
              ELSE Generated(MissingToken, "Failed to generate token")
  /\ UNCHANGED <<now, githubToken, gists, req, adminPassword>>

(***************************************************************************)
(* validateToken: the lookup and the expiry check, then (on an expired     *)
(* token) the write of the expired flag.  storeOk = FALSE is a store call  *)
(* that throws, which the catch turns into "Failed to validate token".     *)
(***************************************************************************)
Validated(token, result) ==
  [op |-> "validateToken", token |-> token, result |-> result, gistUrl |-> Null]

\* The lookup with a store failure swallowed into false.
ValidateLookupSwallowed(token, storeOk) ==
  IF ~storeOk
    THEN "false"
  ELSE IF FindOneUnused(store, token) = 0
    THEN "false"
  ELSE IF TokenExpired(store[FindOneUnused(store, token)], now)
    THEN "flag"
  ELSE "true"

\* What the lookup step answers; "flag" when the expired flag is written first.
ValidateLookup(token, storeOk) ==
  IF ~storeOk
    THEN "Failed to validate token"
  ELSE IF FindOneUnused(store, token) = 0
    THEN "false"
  ELSE IF TokenExpired(store[FindOneUnused(store, token)], now)
    THEN "flag"
  ELSE "true"

ValidateToken(c, token, storeOk) ==
  /\ req[c].pc = "idle"
  /\ IF ValidateLookup(token, storeOk) = "flag"
       THEN /\ req' = [req EXCEPT ![c] = [Idle EXCEPT !.pc = "flag", !.token = token]]
            /\ ret' = NoResponse
       ELSE /\ ret' = Validated(token, ValidateLookup(token, storeOk))
            /\ UNCHANGED req
  /\ UNCHANGED <<store, now, githubToken, gists, adminPassword>>

\* The flag write as best effort: false whether or not it succeeds.
ValidateFlagResultSwallowed(storeOk) == "false"

ValidateFlagResult(storeOk) ==
  IF storeOk THEN "false" ELSE "Failed to validate token"

ValidateFlag(c, storeOk) ==
  /\ req[c].pc = "flag"
  /\ store' = IF storeOk
                THEN UpdateOne(store, req[c].token, [expired |-> TRUE])
                ELSE store
  /\ req' = [req EXCEPT ![c] = Idle]
  /\ ret' = Validated(req[c].token, ValidateFlagResult(storeOk))
  /\ UNCHANGED <<now, githubToken, gists, adminPassword>>

(***************************************************************************)
(* uploadFiles: the input check, the lookup and the path reconstruction;   *)
(* then createGist; then the update of the token.                          *)
(***************************************************************************)
Uploaded(token, result, gistUrl) ==
  [op |-> "uploadFiles", token |-> token, result |-> result, gistUrl |-> gistUrl]

\* The first step with the store reached before the input is checked.
UploadLookupStoreFirst(token, files, storeOk) ==
  IF ~storeOk
    THEN "store error"
  ELSE IF token = MissingToken \/ Len(files) = 0
    THEN "Missing token or files"
  ELSE IF FindOneUnused(store, token) = 0
    THEN "Invalid or already used token"
  ELSE "found"

\* What the first step answers; "found" when the request goes on.
UploadLookup(token, files, storeOk) ==
  IF token = MissingToken \/ Len(files) = 0
    THEN "Missing token or files"
  ELSE IF ~storeOk
    THEN "store error"
  ELSE IF FindOneUnused(store, token) = 0
    THEN "Invalid or already used token"
  ELSE "found"

\* uploadFiles without the lookup of the token: every valid input is relayed.
UploadFilesUnchecked(c, token, files, storeOk) ==
  /\ req[c].pc = "idle"
  /\ IF token # MissingToken /\ Len(files) > 0
       THEN /\ req' = [req EXCEPT ![c] =
                         [pc |-> "relay", token |-> token, files |-> files,
                          filesByPath |-> FilesByPath(files),
                          hasFolderStructure |-> HasFolderStructure(files),
                          processed |-> <<>>,
                          gistUrl |-> Null]]
            /\ ret' = NoResponse
       ELSE /\ ret' = Uploaded(token, "Missing token or files", Null)
            /\ UNCHANGED req
  /\ UNCHANGED <<store, now, githubToken, gists, adminPassword>>

UploadFiles(c, token, files, storeOk) ==
  /\ req[c].pc = "idle"
  /\ IF UploadLookup(token, files, storeOk) = "found"
       THEN /\ req' = [req EXCEPT ![c] =
                         [pc |-> "relay", token |-> token, files |-> files,
                          filesByPath |-> FilesByPath(files),
                          hasFolderStructure |-> HasFolderStructure(files),
                          processed |-> <<>>,
                          gistUrl |-> Null]]
            /\ ret' = NoResponse
       ELSE /\ ret' = Uploaded(token, UploadLookup(token, files, storeOk), Null)
            /\ UNCHANGED req
  /\ UNCHANGED <<store, now, githubToken, gists, adminPassword>>

\* The gist the external API creates: its URL, its files, the number of
\* files of the upload and whether its description says "with folder
\* structure"; token tells which request created it.
NewGist(r) ==
  [url |-> GistUrl(Len(gists) + 1),
   token |-> r.token,
   files |-> BuildGist(r.filesByPath).gistFiles,
   fileCount |-> Len(r.files),
   folders |-> r.hasFolderStructure]

\* The error thrown inside the try of createGist: for a missing credential
\* before the fetch, else for the response that is not ok, whose message is
\* here "Bad credentials".
ThrownInCreateGist(apiOk) ==
  IF ~githubToken
    THEN "GitHub token is not configured"
    ELSE "GitHub API error: Bad credentials"

\* The catch of createGist answering as if the gist had been created.
CreateGistErrorSwallowed(error) == "success"

\* catch (error) { throw new Error("Failed to create gist") }
CreateGistError(error) == "Failed to create gist"

\* createGist: the credential check, the files object, the fetch.  apiOk is
\* response.ok.  uploadFiles rethrows the message of what createGist throws.
CreateGist(c, apiOk) ==
  /\ req[c].pc = "relay"
  /\ IF githubToken /\ apiOk
       THEN /\ Len(gists) < MaxGists
            /\ gists' = Append(gists, NewGist(req[c]))
            /\ req' = [req EXCEPT ![c].pc = "update",
                                  ![c].processed =
                                     BuildGist(req[c].filesByPath).processed,
                                  ![c].gistUrl = GistUrl(Len(gists) + 1)]
            /\ ret' = NoResponse
       ELSE /\ req' = [req EXCEPT ![c] = Idle]
            /\ ret' = Uploaded(req[c].token,
                               CreateGistError(ThrownInCreateGist(apiOk)), Null)
            /\ UNCHANGED gists
  /\ UNCHANGED <<store, now, githubToken, adminPassword>>

MarkUsed(st, r) ==
  UpdateOne(st, r.token,
            UsedFields(r.gistUrl, now, r.files, r.hasFolderStructure))

UseToken(c, storeOk) ==
  /\ req[c].pc = "update"
  /\ store' = IF storeOk THEN MarkUsed(store, req[c]) ELSE store
  /\ req' = [req EXCEPT ![c] = Idle]
  /\ ret' = IF storeOk
              THEN Uploaded(req[c].token, "success", req[c].gistUrl)
              ELSE Uploaded(req[c].token, "store error", Null)
  /\ UNCHANGED <<now, githubToken, gists, adminPassword>>

(***************************************************************************)
(* The system: the requests of the clients, interleaved.                   *)
(***************************************************************************)
TokenInputs == TokenValues \cup {UnknownToken}

Next ==
  \/ \E d \in {HourMs, DayMs} : Tick(d)
  \/ \E token \in Nanoid(store, TokenValues), storeOk \in BOOLEAN :
       GenerateToken(token, storeOk)
  \/ \E c \in Clients, token \in TokenInputs, storeOk \in BOOLEAN :
       ValidateToken(c, token, storeOk)
  \/ \E c \in Clients, storeOk \in BOOLEAN : ValidateFlag(c, storeOk)
  \/ \E c \in Clients, token \in TokenInputs \cup {MissingToken},
        files \in TokenUploads, storeOk \in BOOLEAN :
       UploadFiles(c, token, files, storeOk)
  \/ \E c \in Clients, apiOk \in BOOLEAN : CreateGist(c, apiOk)
  \/ \E c \in Clients, storeOk \in BOOLEAN : UseToken(c, storeOk)

Spec == Init /\ [][Next]_vars

(***************************************************************************)
(* The admin gate (POST /api/auth).  The body of a request is what         *)
(* request.json() makes of it: it throws on a body that is no JSON, and    *)
(* the destructuring { password } throws on null; any other value has a    *)
(* password, or none (undefined).                                          *)
(***************************************************************************)
PwChars == {"a", "b"}

Passwords == {<<>>} \cup SeqsUpTo(PwChars, MaxPwLen)

NoJson == [kind |-> "no JSON", password |-> Undefined]

JsonNull == [kind |-> "null", password |-> Undefined]

JsonValue(password) == [kind |-> "value", password |-> password]

Bodies ==
  {NoJson, JsonNull, JsonValue(Undefined)}
  \cup {JsonValue(String(p)) : p \in Passwords}

EnvValues == {Undefined} \cup {String(p) : p \in Passwords}

Response(status, authenticated, message) ==
  [status |-> status, authenticated |-> authenticated, message |-> message]

\* The handler reading the secret without checking that it is set.
AuthResponseUnchecked(body) ==
  IF body.kind \in {"no JSON", "null"}
    THEN Response(500, FALSE, "An error occurred during authentication")
  ELSE IF body.password # adminPassword
    THEN Response(401, FALSE, "Invalid password")
  ELSE Response(200, TRUE, "")

AuthResponse(body) ==
  IF body.kind \in {"no JSON", "null"}
    THEN Response(500, FALSE, "An error occurred during authentication")
  ELSE IF adminPassword = Undefined \/ adminPassword = String(<<>>)
    THEN Response(500, FALSE, "Server configuration error: Admin password not set")
  ELSE IF body.password # adminPassword
    THEN Response(401, FALSE, "Invalid password")
  ELSE Response(200, TRUE, "")

Authenticated(body) ==
  [op |-> "POST", body |-> body, response |-> AuthResponse(body)]

POST(body) ==
  /\ ret' = Authenticated(body)
  /\ UNCHANGED <<store, now, githubToken, adminPassword, gists, req>>

InitAuth ==
  /\ store = <<>>
  /\ now = 0
  /\ githubToken \in BOOLEAN
  /\ adminPassword \in EnvValues
  /\ gists = <<>>
  /\ req = [c \in Clients |-> Idle]
  /\ ret = NoResponse

NextAuth == \E body \in Bodies : POST(body)

SpecAuth == InitAuth /\ [][NextAuth]_vars

(***************************************************************************)
(* The requests of one client, one after the other.                        *)
(***************************************************************************)
NextOne ==
  \/ \E d \in {HourMs, DayMs} : Tick(d)
  \/ \E token \in Nanoid(store, TokenValues), storeOk \in BOOLEAN :
       GenerateToken(token, storeOk)
  \/ \E token \in TokenInputs, storeOk \in BOOLEAN :
       ValidateToken("c1", token, storeOk)
  \/ \E storeOk \in BOOLEAN : ValidateFlag("c1", storeOk)
  \/ \E token \in TokenInputs \cup {MissingToken},
        files \in TokenUploads, storeOk \in BOOLEAN :
       UploadFiles("c1", token, files, storeOk)
  \/ \E apiOk \in BOOLEAN : CreateGist("c1", apiOk)
  \/ \E storeOk \in BOOLEAN : UseToken("c1", storeOk)

SpecOne == Init /\ [][NextOne]_vars

(***************************************************************************)
(* Several links.  Above, nanoid(10) returns a value that no record        *)
(* carries; here it is a free choice among the values of TokenPool, a      *)
(* value that is already stored included: generateToken neither checks nor *)
(* retries.  One client; the clock advances by days.                       *)
(***************************************************************************)
TokenPool == {"t1", "t2"}

OneFile == << File(<<"e">>) >>

\* The one client of this specification.
IssueClient == "c1"

NextIssue ==
  \/ Tick(DayMs)
  \/ /\ Len(store) < MaxDocs
     /\ \E token \in TokenPool, storeOk \in BOOLEAN : GenerateToken(token, storeOk)
  \/ \E token \in TokenPool, storeOk \in BOOLEAN :
       ValidateToken(IssueClient, token, storeOk)
  \/ \E storeOk \in BOOLEAN : ValidateFlag(IssueClient, storeOk)
  \/ \E token \in TokenPool, storeOk \in BOOLEAN :
       UploadFiles(IssueClient, token, OneFile, storeOk)
  \/ \E apiOk \in BOOLEAN : CreateGist(IssueClient, apiOk)
  \/ \E storeOk \in BOOLEAN : UseToken(IssueClient, storeOk)

\* The credential of the gist API is configured.
InitIssue == Init /\ githubToken

SpecIssue == InitIssue /\ [][NextIssue]_vars

(***************************************************************************)
(* The path reconstruction on its own: one client uploads, with a fresh    *)
(* token, any of the enumerated file collections.                          *)
(***************************************************************************)
InitFiles ==
  /\ store = << NewDoc("t1", 0) >>
  /\ now = 0
  /\ githubToken = TRUE
  /\ adminPassword = Undefined
  /\ gists = <<>>
  /\ req = [c \in Clients |-> Idle]
  /\ ret = NoResponse

\* The client submits one upload, as the first thing that happens.
NextFiles ==
  \/ /\ req["c1"].pc = "idle" /\ ret = NoResponse /\ gists = <<>>
     /\ \E files \in FileUploads, storeOk \in BOOLEAN :
          UploadFiles("c1", "t1", files, storeOk)
  \/ \E apiOk \in BOOLEAN : CreateGist("c1", apiOk)
  \/ \E storeOk \in BOOLEAN : UseToken("c1", storeOk)

SpecFiles == InitFiles /\ [][NextFiles]_vars

(***************************************************************************)
(* The gist construction on its own: one client uploads, with a fresh      *)
(* token, any of the enumerated file collections of GistUploads.           *)
(***************************************************************************)
NextGist ==
  \/ /\ req["c1"].pc = "idle" /\ ret = NoResponse /\ gists = <<>>
     /\ \E files \in GistUploads, storeOk \in BOOLEAN :
          UploadFiles("c1", "t1", files, storeOk)
  \/ \E apiOk \in BOOLEAN : CreateGist("c1", apiOk)
  \/ \E storeOk \in BOOLEAN : UseToken("c1", storeOk)

SpecGist == InitFiles /\ [][NextGist]_vars

(***************************************************************************)
(* Vocabulary of the properties.                                           *)
(***************************************************************************)
ValidateError == "Failed to validate token"

HasDoc(st, token) == \E i \in 1..Len(st) : st[i].token = token

IsUsed(st, token) == \E i \in 1..Len(st) : st[i].token = token /\ st[i].used

HasUnused(st, token) == \E i \in 1..Len(st) : st[i].token = token /\ ~st[i].used

\* An unused record of the token that is no older than 24 hours at time t.
HasFresh(st, token, t) ==
  \E i \in 1..Len(st) :
    st[i].token = token /\ ~st[i].used /\ t - st[i].createdAt <= DayMs

\* Every record of the token is older than 24 hours at time t.
TimeExpired(st, token, t) ==
  /\ HasDoc(st, token)
  /\ \A i \in 1..Len(st) : st[i].token = token => t - st[i].createdAt > DayMs

SuccessfulUpload(r) == r.op = "uploadFiles" /\ r.result = "success"

(***************************************************************************)
(* C1.  Consumption never succeeds twice for the same token, even under    *)
(* concurrent invocation: an uploadFiles request returns success only for  *)
(* a token that is still unused when its update is applied, so of two      *)
(* concurrent requests for one fresh token exactly one succeeds.           *)
(***************************************************************************)
C1_ConsumedAtMostOnce ==
  [][SuccessfulUpload(ret') => HasUnused(store, ret'.token)]_vars

(***************************************************************************)
(* C2.  A token older than 24 hours can never be consumed: no record has   *)
(* used = true set at a time later than createdAt + 24h.                   *)
(***************************************************************************)
C2_NeverUsedAfterExpiry ==
  \A i \in 1..Len(store) :
    store[i].used => store[i].usedAt <= store[i].createdAt + DayMs

(***************************************************************************)
(* C3.  validateToken returns false once used = true, whatever the time:   *)
(* a call made when the token's record is used answers false when its      *)
(* lookup succeeds, and never answers true.                                *)
(***************************************************************************)
C3_ValidateFalseOnceUsed ==
  [][\A c \in Clients, token \in TokenInputs, storeOk \in BOOLEAN :
       (IsUsed(store, token) /\ ValidateToken(c, token, storeOk))
         => /\ ret'.result # "true"
            /\ storeOk => ret' = Validated(token, "false")]_vars

C3_Witness ==
  /\ ret = Validated("t1", "false")
  /\ IsUsed(store, "t1")
  /\ ~TimeExpired(store, "t1", now)

(***************************************************************************)
(* C4.  validateToken returns false once more than 24 hours have elapsed   *)
(* since createdAt, whatever used and the expired flag are: such a call    *)
(* never answers true, and it answers false when its store calls succeed   *)
(* (at the lookup for a used token, after the flag write for an unused     *)
(* one).                                                                   *)
(***************************************************************************)
C4_ValidateFalseOnceExpired ==
  [][/\ \A c \in Clients, token \in TokenInputs, storeOk \in BOOLEAN :
          (TimeExpired(store, token, now) /\ ValidateToken(c, token, storeOk))
            => /\ ret'.result # "true"
               /\ storeOk => \/ ret' = Validated(token, "false")
                             \/ req'[c].pc = "flag"
     /\ \A c \in Clients, storeOk \in BOOLEAN :
          ValidateFlag(c, storeOk)
            => /\ ret'.result # "true"
               /\ storeOk => ret' = Validated(req[c].token, "false")]_vars

\* false for an unused token, after the call has set its expired flag.
C4_Witness ==
  /\ ret = Validated("t1", "false")
  /\ TimeExpired(store, "t1", now)
  /\ \E i \in 1..Len(store) : ~store[i].used /\ store[i].expired

(***************************************************************************)
(* C5.  validateToken returns true whenever a record with that token       *)
(* exists, is unused and is at most 24 hours old (exactly 24 hours         *)
(* included), whatever its expired flag; a value never issued gets false.  *)
(***************************************************************************)
C5_ValidateTrueWhileFresh ==
  [][\A c \in Clients, token \in TokenInputs :
       ValidateToken(c, token, TRUE)
         => /\ HasFresh(store, token, now) => ret' = Validated(token, "true")
            /\ ~HasDoc(store, token) => ret' = Validated(token, "false")]_vars

\* true at exactly 24 hours.
C5_Witness ==
  /\ ret = Validated("t1", "true")
  /\ \E i \in 1..Len(store) :
       store[i].token = "t1" /\ now - store[i].createdAt = DayMs

(***************************************************************************)
(* C6.  The consumption record is written once: once a record has          *)
(* used = true, its used, gistUrl, fileCount, fileNames and                *)
(* containsFolders never change again.                                     *)
(***************************************************************************)
C6_ConsumptionIrreversible ==
  [][\A i \in 1..Len(store) :
       store[i].used
         => /\ store'[i].used
            /\ store'[i].gistUrl = store[i].gistUrl
            /\ store'[i].fileCount = store[i].fileCount
            /\ store'[i].fileNames = store[i].fileNames
            /\ store'[i].containsFolders = store[i].containsFolders]_vars

(***************************************************************************)
(* C7.  For every record: used = false implies gistUrl = null; used = true *)
(* implies gistUrl is the URL of a gist created for that token, and        *)
(* fileCount and containsFolders are the number of files and the folder    *)
(* flag of the upload that created that gist.                              *)
(***************************************************************************)
C7_GistUrlIffUsed ==
  \A i \in 1..Len(store) :
    /\ ~store[i].used => store[i].gistUrl = Null
    /\ store[i].used
         => \E k \in 1..Len(gists) :
              /\ gists[k].url = store[i].gistUrl
              /\ gists[k].token = store[i].token
              /\ gists[k].fileCount = store[i].fileCount
              /\ gists[k].folders = store[i].containsFolders

\* A used record, after two gists were created for its token.
C7_Witness ==
  /\ Len(gists) = 2
  /\ \E i \in 1..Len(store) : store[i].used /\ store[i].containsFolders

(***************************************************************************)
(* C8 as claimed.  When the write of the expired flag fails, validateToken *)
(* still returns false.                                                    *)
(***************************************************************************)
C8_FlagFailureReturnsFalse ==
  [][\A c \in Clients :
       ValidateFlag(c, FALSE) => ret' = Validated(req[c].token, "false")]_vars

(***************************************************************************)
(* C8 as amended.  When the write of the expired flag fails, validateToken *)
(* does not return true: the failure is raised as "Failed to validate      *)
(* token", and the record keeps the flag it had.                           *)
(***************************************************************************)
C8_FlagFailureRaises ==
  [][\A c \in Clients :
       ValidateFlag(c, FALSE)
         => /\ ret' = Validated(req[c].token, ValidateError)
            /\ store' = store]_vars

C8_Witness ==
  /\ ret = Validated("t1", ValidateError)
  /\ TimeExpired(store, "t1", now)
  /\ \E i \in 1..Len(store) : ~store[i].used /\ ~store[i].expired

(***************************************************************************)
(* C9.  When the store cannot be reached (the connect or the lookup        *)
(* fails), validateToken raises an error; it returns neither false nor     *)
(* true.                                                                   *)
(***************************************************************************)
C9_StoreFailurePropagates ==
  [][\A c \in Clients, token \in TokenInputs :
       ValidateToken(c, token, FALSE)
         => ret' = Validated(token, ValidateError)]_vars

\* The error for a fresh token: no flag write was attempted.
C9_Witness ==
  /\ ret = Validated("t1", ValidateError)
  /\ HasFresh(store, "t1", now)

(***************************************************************************)
(* C10.  Path reconstruction of files without a path attribute: a file     *)
(* whose name contains '/' is placed under the directory formed by         *)
(* everything before the last '/', its name reduced to what follows it; a  *)
(* file whose name contains neither '/' nor '\' (hyphens included) is      *)
(* placed under the empty root path with its name unchanged; the files of  *)
(* one directory keep their upload order; and a/b/c.txt, a/b/d.txt, e.txt  *)
(* are grouped as {"a/b": [c.txt, d.txt], "": [e.txt]}.                    *)
(***************************************************************************)
LastIndexOf(s, c) ==
  CHOOSE i \in 1..Len(s) : s[i] = c /\ \A j \in (i + 1)..Len(s) : s[j] # c

Before(s, i) == SubSeq(s, 1, i - 1)

After(s, i) == SubSeq(s, i + 1, Len(s))

\* The directory a file belongs to: its path attribute, else what precedes
\* the last '/' of its name, else what precedes the last '\', else the root.
ExpectedDir(file) ==
  IF file.path # <<>> THEN file.path
  ELSE IF Includes(file.name, "/")
    THEN Before(file.name, LastIndexOf(file.name, "/"))
  ELSE IF Includes(file.name, "\\")
    THEN Before(file.name, LastIndexOf(file.name, "\\"))
  ELSE <<>>

\* The name a file without a path attribute is reduced to.
ExpectedName(file) ==
  IF Includes(file.name, "/")
    THEN After(file.name, LastIndexOf(file.name, "/"))
    ELSE file.name

\* The files C10 is about.
InC10(file) ==
  /\ file.path = <<>>
  /\ Includes(file.name, "/") \/ ~Includes(file.name, "\\")

\* How many of the first i files belong to the directory of the i-th.
Slot(files, i) ==
  Cardinality({j \in 1..i : ExpectedDir(files[j]) = ExpectedDir(files[i])})

\* The i-th file sits in the entry of its directory, under its reduced name,
\* after the earlier files of that directory and before the later ones.
PlacedInOrder(files, grouping, i) ==
  \E k \in 1..Len(grouping) :
    /\ grouping[k].path = ExpectedDir(files[i])
    /\ \A l \in 1..Len(grouping) : grouping[l].path = grouping[k].path => l = k
    /\ Slot(files, i) <= Len(grouping[k].files)
    /\ grouping[k].files[Slot(files, i)].name = ExpectedName(files[i])

ExampleGrouping ==
  << [path |-> <<"a", "/", "b">>,
      files |-> << File(<<"c", ".", "txt">>), File(<<"d", ".", "txt">>) >>],
     [path |-> <<>>,
      files |-> << File(<<"e", ".", "txt">>) >>] >>

Reconstructed(r) == r.pc \in {"relay", "update"}

C10_PathReconstruction ==
  \A c \in Clients :
    Reconstructed(req[c])
      => /\ \A i \in 1..Len(req[c].files) :
              InC10(req[c].files[i])
                => PlacedInOrder(req[c].files, req[c].filesByPath, i)
         /\ req[c].files = ExampleUpload => req[c].filesByPath = ExampleGrouping

\* Two files of one directory and a root file with a hyphen, none with a
\* path attribute, have been grouped.
C10_Witness ==
  \E c \in Clients :
    /\ Reconstructed(req[c])
    /\ req[c].files = << File(<<"a", "/", "a">>), File(<<"a", "-", "b">>) >>
    /\ Len(req[c].filesByPath) = 2

(***************************************************************************)
(* Vocabulary of the properties of the gist construction.                  *)
(***************************************************************************)
\* The request has built its files object and created its gist.
Built(r) == r.pc = "update"

\* The gist a request created.
GistOf(r) == gists[CHOOSE k \in 1..Len(gists) : gists[k].url = r.gistUrl]

EntryNames(entries) == [i \in 1..Len(entries) |-> entries[i].name]

\* How many of the first i processed files have the display name of the i-th.
Occurrence(processed, i) ==
  Cardinality({j \in 1..i : processed[j].display = processed[i].display})

\* Where the file extension of a display name starts: its last '.' after its
\* last '/'; 0 when the final segment has none.
ExtensionDot(d) ==
  LET dots == {i \in 1..Len(d) : d[i] = "." /\ \A j \in i..Len(d) : d[j] # "/"}
  IN IF dots = {} THEN 0 ELSE CHOOSE i \in dots : \A j \in dots : j <= i

\* d with ' (k)' inserted before the file extension, or appended.
Numbered(d, k) ==
  LET tag == <<" ", "(">> \o NumStr(k) \o <<")">>
  IN IF ExtensionDot(d) = 0
       THEN d \o tag
       ELSE SubSeq(d, 1, ExtensionDot(d) - 1) \o tag
              \o SubSeq(d, ExtensionDot(d), Len(d))

XNotesTxt == <<"x", "/">> \o NotesTxt

(***************************************************************************)
(* C11.  Display-name collisions: of the files of one upload that resolve  *)
(* to the same display name d, the first keeps d and the i-th (i >= 2, in  *)
(* processing order) is submitted as d with ' (i)' inserted before the     *)
(* file extension, or appended when there is none; three files resolving   *)
(* to x/notes.txt give x/notes.txt, x/notes (2).txt, x/notes (3).txt in    *)
(* insertion order.                                                        *)
(***************************************************************************)
C11_CollisionNaming ==
  \A c \in Clients :
    Built(req[c])
      => /\ \A i \in 1..Len(req[c].processed) :
              req[c].processed[i].name =
                IF Occurrence(req[c].processed, i) = 1
                  THEN req[c].processed[i].display
                  ELSE Numbered(req[c].processed[i].display,
                                Occurrence(req[c].processed, i))
         /\ EntryNames(req[c].files) = <<XNotesTxt, XNotesTxt, XNotesTxt>>
              => EntryNames(GistOf(req[c]).files) =
                   <<XNotesTxt, Numbered(XNotesTxt, 2), Numbered(XNotesTxt, 3)>>

(***************************************************************************)
(* C12 as claimed.  The folder-structured flag is true if and only if at   *)
(* least one uploaded file resolves to a non-empty directory path; an      *)
(* upload whose files all resolve to the root (a name with only a leading  *)
(* separator) has the flag false.                                          *)
(***************************************************************************)
ResolvesToDirectory(files) ==
  \E i \in 1..Len(files) : ExpectedDir(files[i]) # <<>>

C12_FlagIffDirectory ==
  \A c \in Clients :
    Reconstructed(req[c])
      => (req[c].hasFolderStructure <=> ResolvesToDirectory(req[c].files))

(***************************************************************************)
(* C12 as amended.  The flag is true if and only if at least one uploaded  *)
(* file has a non-empty path attribute or a name that contains '/' or '\': *)
(* it is true whenever a file resolves to a non-empty directory path, and  *)
(* also when a separator in a name leaves every file in the root; when it  *)
(* is false the grouping is the root with the files as uploaded.  The gist *)
(* is described with that flag.                                            *)
(***************************************************************************)
CarriesSeparator(files) ==
  \E i \in 1..Len(files) :
    \/ files[i].path # <<>>
    \/ \E k \in 1..Len(files[i].name) : files[i].name[k] \in {"/", "\\"}

C12_FlagIffPathInfo ==
  \A c \in Clients :
    Reconstructed(req[c])
      => /\ req[c].hasFolderStructure <=> CarriesSeparator(req[c].files)
         /\ ResolvesToDirectory(req[c].files) => req[c].hasFolderStructure
         /\ ~req[c].hasFolderStructure
              => req[c].filesByPath = << [path |-> <<>>, files |-> req[c].files] >>
         /\ Built(req[c]) => GistOf(req[c]).folders = req[c].hasFolderStructure

\* The gist of the single file /a, which resolves to the root, was created
\* with the flag set.
C12_Witness ==
  \E c \in Clients :
    /\ Built(req[c])
    /\ req[c].files = << File(<<"/", "a">>) >>
    /\ req[c].hasFolderStructure
    /\ ~ResolvesToDirectory(req[c].files)

(***************************************************************************)
(* C13.  A file whose bytes are no UTF-8 gets, as the content of its gist  *)
(* entry, a placeholder that begins with 'Binary file: '; a file whose     *)
(* bytes are UTF-8 gets its decoded text.                                  *)
(***************************************************************************)
\* The bytes of the i-th processed file.
BytesOf(r, i) == PathFiles(r.filesByPath)[i].file.content

Undecodable(bytes) == \E k \in 1..Len(bytes) : bytes[k] = "xFF"

C13_BinaryPlaceholder ==
  \A c \in Clients :
    Built(req[c])
      => \A i \in 1..Len(req[c].processed) :
           IF Undecodable(BytesOf(req[c], i))
             THEN /\ req[c].processed[i].content # <<>>
                  /\ Head(req[c].processed[i].content) = "Binary file: "
             ELSE req[c].processed[i].content = BytesOf(req[c], i)

(***************************************************************************)
(* C14.  Without a credential for the external API, an upload with a valid *)
(* token is rejected locally with the configuration error: the error that  *)
(* uploadFiles raises is the one for the missing credential, no gist is    *)
(* created and the token record is unchanged.                              *)
(***************************************************************************)
MissingCredential == "GitHub token is not configured"

C14_MissingCredentialRejected ==
  [][\A c \in Clients, apiOk \in BOOLEAN :
       (~githubToken /\ CreateGist(c, apiOk))
         => /\ ret' = Uploaded(req[c].token, MissingCredential, Null)
            /\ gists' = gists
            /\ store' = store]_vars

(***************************************************************************)
(* C15.  When the external API answers non-2xx with a message m, the error *)
(* that uploadFiles raises carries m, and differs from the error raised    *)
(* for a missing credential.                                               *)
(***************************************************************************)
C15_RelayFailureCarriesMessage ==
  [][\A c \in Clients :
       (githubToken /\ CreateGist(c, FALSE))
         => /\ ret'.result = "GitHub API error: Bad credentials"
            /\ ret'.result # CreateGistError(MissingCredential)]_vars

(***************************************************************************)
(* C17.  An upload request with a missing token or with no file is         *)
(* rejected as invalid input before any store access or external call:     *)
(* whether or not the store can be reached, it raises "Missing token or    *)
(* files", which is not the invalid-token error, the store and the gists   *)
(* are unchanged and the request goes no further.                          *)
(***************************************************************************)
InvalidInput == "Missing token or files"

C17_InvalidInputRejectedFirst ==
  [][\A c \in Clients, token \in TokenInputs \cup {MissingToken},
        files \in TokenUploads, storeOk \in BOOLEAN :
       ((token = MissingToken \/ files = <<>>)
          /\ UploadFiles(c, token, files, storeOk))
         => /\ ret' = Uploaded(token, InvalidInput, Null)
            /\ InvalidInput # "Invalid or already used token"
            /\ store' = store
            /\ gists' = gists
            /\ req' = req]_vars

\* The rejection of an upload of no file with a token that is valid.
C17_Witness ==
  /\ ret = Uploaded("t1", InvalidInput, Null)
  /\ HasUnused(store, "t1")
  /\ \A c \in Clients : req[c].pc = "idle"

(***************************************************************************)
(* C16 as claimed.  Admin gate: for every request with a parseable body,   *)
(* the response is {authenticated: true} if and only if the secret is      *)
(* configured and the supplied password equals it; a configured secret     *)
(* with another (or no) password yields 401; an unconfigured secret yields *)
(* the 500 configuration error for every password.                         *)
(***************************************************************************)
Configured == adminPassword # Undefined /\ adminPassword.value # <<>>

ConfigurationError == "Server configuration error: Admin password not set"

GateRule(r) ==
  /\ r.response.authenticated
       <=> (Configured /\ r.body.password = adminPassword)
  /\ r.response.authenticated => r.response.status = 200
  /\ (Configured /\ r.body.password # adminPassword)
       => r.response.status = 401
  /\ ~Configured
       => r.response.status = 500 /\ r.response.message = ConfigurationError

C16_AdminGateParseable ==
  (ret.op = "POST" /\ ret.body.kind # "no JSON") => GateRule(ret)

(***************************************************************************)
(* C16 as amended.  The same, for every request whose body parses to a     *)
(* JSON value other than null; a body that parses to null, like a body     *)
(* that does not parse, yields the generic 500 error whatever the secret   *)
(* is, and never {authenticated: true}.                                    *)
(***************************************************************************)
C16_AdminGate ==
  ret.op = "POST"
    => /\ ret.body.kind = "value" => GateRule(ret)
       /\ ret.body.kind # "value"
            => /\ ~ret.response.authenticated
               /\ ret.response.status = 500
               /\ ret.response.message # ConfigurationError

\* The gate opened by the right password.
C16_Witness ==
  /\ ret.op = "POST"
  /\ ret.response.authenticated
  /\ ret.body.password = String(<<"a", "b">>)

(***************************************************************************)
(* C18.  In the grouping produced by the path reconstruction every file's  *)
(* name is reduced to its final path segment: whatever the file (with or   *)
(* without a path attribute, with '/', '\' or both in its name), the name  *)
(* stored in the grouping contains no '/' and no '\'.                      *)
(***************************************************************************)
Bare(name) == \A k \in 1..Len(name) : name[k] \notin {"/", "\\"}

C18_GroupedNamesBare ==
  \A c \in Clients :
    (Reconstructed(req[c]) /\ req[c].hasFolderStructure)
      => \A g \in 1..Len(req[c].filesByPath) :
           \A i \in 1..Len(req[c].filesByPath[g].files) :
             Bare(req[c].filesByPath[g].files[i].name)

(***************************************************************************)
(* C19.  Display names: a file at directory path p with name n is given    *)
(* the display name n when p is empty and normalize(p) + '/' + n           *)
(* otherwise, where normalize turns every '\' into '/'; so a\b\c.t and     *)
(* a/b/c.t get the same display name a/b/c.t and are treated as a          *)
(* collision.                                                              *)
(***************************************************************************)
\* t is s with every '\' turned into '/'.
IsNormalized(t, s) ==
  /\ Len(t) = Len(s)
  /\ \A k \in 1..Len(s) : t[k] = IF s[k] = "\\" THEN "/" ELSE s[k]

IsDisplayName(d, p, n) ==
  IF p = <<>>
    THEN d = n
    ELSE /\ Len(d) = Len(p) + 1 + Len(n)
         /\ IsNormalized(SubSeq(d, 1, Len(p)), p)
         /\ d[Len(p) + 1] = "/"
         /\ SubSeq(d, Len(p) + 2, Len(d)) = n

ABCt == <<"a", "/", "b", "/", "c", ".", "t">>

BackslashABCt == <<"a", "\\", "b", "\\", "c", ".", "t">>

C19_DisplayNames ==
  \A c \in Clients :
    Built(req[c])
      => /\ \A i \in 1..Len(req[c].processed) :
              IsDisplayName(req[c].processed[i].display,
                            PathFiles(req[c].filesByPath)[i].path,
                            PathFiles(req[c].filesByPath)[i].file.name)
         /\ EntryNames(req[c].files) = <<BackslashABCt, ABCt>>
              => /\ req[c].processed[1].display = ABCt
                 /\ req[c].processed[2].display = ABCt
                 /\ EntryNames(GistOf(req[c]).files) = <<ABCt, Numbered(ABCt, 2)>>

\* The gist of a\b\c.t and a/b/c.t, in that order.
C19_Witness ==
  \E c \in Clients :
    /\ Built(req[c])
    /\ EntryNames(req[c].files) = <<BackslashABCt, ABCt>>
    /\ Len(GistOf(req[c]).files) = 2

(***************************************************************************)
(* C20.  No uploaded file is lost to a name clash: for every upload of n   *)
(* files the files object submitted to the external API has exactly n      *)
(* entries, with pairwise distinct names, each holding the content of a    *)
(* different uploaded file.                                                *)
(***************************************************************************)
Injective(f) == \A i, j \in DOMAIN f : f[i] = f[j] => i = j

C20_NoFileLost ==
  \A c \in Clients :
    Built(req[c])
      => LET entries == GistOf(req[c]).files
             files == req[c].files
         IN /\ Len(entries) = Len(files)
            /\ Injective(EntryNames(entries))
            /\ \E f \in [1..Len(entries) -> 1..Len(files)] :
                 /\ Injective(f)
                 /\ \A i \in 1..Len(entries) :
                      entries[i].content = BufferToString(files[f[i]].content)

(***************************************************************************)
(* C21.  When a colliding display name is renamed, the directory prefix is *)
(* left unchanged and the counter goes into the bare file name only: a     *)
(* colliding file without extension in its bare name gets ' (k)' appended  *)
(* at the very end even when its directory contains a '.'; a second x.y/n  *)
(* becomes x.y/n (2).                                                      *)
(***************************************************************************)
\* The length of the directory prefix of a display name, its last '/'
\* included; 0 when it has none.
PrefixLen(d) ==
  IF \E i \in 1..Len(d) : d[i] = "/"
    THEN CHOOSE i \in 1..Len(d) :
           d[i] = "/" /\ \A j \in (i + 1)..Len(d) : d[j] # "/"
    ELSE 0

DottedDirNotes == <<"x", ".", "y", "/", "n">>

C21_CounterInBareName ==
  \A c \in Clients :
    Built(req[c])
      => /\ \A i \in 1..Len(req[c].processed) :
              LET d == req[c].processed[i].display
                  name == req[c].processed[i].name
              IN name # d
                   => /\ Len(name) > Len(d)
                      /\ SubSeq(name, 1, PrefixLen(d)) = SubSeq(d, 1, PrefixLen(d))
                      /\ ExtensionDot(d) = 0 => SubSeq(name, 1, Len(d)) = d
         /\ EntryNames(req[c].files) = <<DottedDirNotes, DottedDirNotes>>
              => EntryNames(GistOf(req[c]).files) =
                   <<DottedDirNotes, DottedDirNotes \o <<" ", "(", "2", ")">> >>


(***************************************************************************)
(* C22: a relay that fails, for a missing credential or for a response     *)
(* that is not ok, makes uploadFiles answer with an error and leaves the   *)
(* store as it was: the record of the token is still unused, without a     *)
(* gist URL and without audit fields, and no gist was created; the lookup  *)
(* of a later uploadFiles with the same token finds it again.              *)
(***************************************************************************)
AuditFields == {"usedAt", "fileCount", "fileNames", "containsFolders"}

RelayFailed(c, apiOk) == CreateGist(c, apiOk) /\ ~(githubToken /\ apiOk)

C22_FailedRelayRetryable ==
  [][\A c \in Clients, apiOk \in BOOLEAN :
       RelayFailed(c, apiOk)
         => /\ ret'.op = "uploadFiles"
            /\ ret'.token = req[c].token
            /\ ret'.result \notin {"success", "none"}
            /\ ret'.gistUrl = Null
            /\ store' = store
            /\ gists' = gists
            /\ req'[c] = Idle
            /\ FindOneUnused(store', req[c].token) # 0
            /\ LET doc == store'[FindOneUnused(store', req[c].token)]
               IN /\ ~doc.used
                  /\ doc.gistUrl = Null
                  /\ DOMAIN doc \cap AuditFields = {}]_vars

C22_Witness ==
  /\ ret.op = "uploadFiles"
  /\ ret.result = "Failed to create gist"
  /\ HasUnused(store, ret.token)
  /\ gists = <<>>

(***************************************************************************)
(* C25: a generateToken whose insert succeeds appends exactly one record,  *)
(* unused, not expired, without a gist URL, expiring 24 hours after its    *)
(* creation, and returns the token of that record; the records already in  *)
(* the store stay as they were.  A generateToken whose insert fails adds   *)
(* no record, returns no token and raises "Failed to generate token".      *)
(***************************************************************************)
C25_GenerateInsertsOne ==
  [][\A token \in TokenPool, storeOk \in BOOLEAN :
       GenerateToken(token, storeOk)
         => IF storeOk
              THEN /\ Len(store') = Len(store) + 1
                   /\ SubSeq(store', 1, Len(store)) = store
                   /\ LET doc == store'[Len(store')]
                      IN /\ ~doc.used
                         /\ ~doc.expired
                         /\ doc.gistUrl = Null
                         /\ doc.createdAt = now
                         /\ doc.expiresAt = doc.createdAt + DayMs
                         /\ ret'.result = "token"
                         /\ ret'.token = doc.token
              ELSE /\ store' = store
                   /\ ret'.token = MissingToken
                   /\ ret'.result = "Failed to generate token"]_vars

\* A token was returned while the store already held a record, used by then.
C25_Witness ==
  /\ ret.op = "generateToken"
  /\ ret.result = "token"
  /\ Len(store) = 2
  /\ store[1].used
  /\ store[2].token = ret.token
  /\ ~store[2].used


(***************************************************************************)
(* C24: validateToken changes nothing but the expired flag.  Its lookup    *)
(* step never changes the store, whatever it answers; its flag step keeps  *)
(* every record as it was or sets expired on a record of the validated     *)
(* token that is older than 24 hours.  So a record flagged expired is      *)
(* always older than 24 hours; and after a validation that answered true   *)
(* the store and the requests are as before, the token still being found   *)
(* fresh: validating again answers the same.                               *)
(***************************************************************************)
Age(doc) == now - doc.createdAt

ExpiredOnlyByAge ==
  \A i \in 1..Len(store) : store[i].expired => Age(store[i]) > DayMs

OnlyFlagged(c) ==
  /\ Len(store') = Len(store)
  /\ \A i \in 1..Len(store) :
       \/ store'[i] = store[i]
       \/ /\ store'[i] = [store[i] EXCEPT !.expired = TRUE]
          /\ store[i].token = req[c].token
          /\ Age(store[i]) > DayMs

C24_ValidateOnlyFlags ==
  /\ []ExpiredOnlyByAge
  /\ [][\A storeOk \in BOOLEAN :
          /\ \A token \in TokenPool :
               ValidateToken(IssueClient, token, storeOk)
                 => /\ store' = store
                    /\ ret'.result = "true"
                         => /\ req' = req
                            /\ HasFresh(store', token, now')
          /\ ValidateFlag(IssueClient, storeOk) => OnlyFlagged(IssueClient)]_vars

\* An expired link was flagged while the store holds a fresh one.
C24_Witness ==
  /\ ret.op = "validateToken"
  /\ ret.result = "false"
  /\ \E i, j \in 1..Len(store) :
       /\ store[i].expired
       /\ store[i].token = ret.token
       /\ store[j].token # ret.token
       /\ ~store[j].expired
       /\ Age(store[j]) <= DayMs


(***************************************************************************)
(* C23, as stated: an uploadFiles whose token is in no record, or only in  *)
(* used ones, answers "Invalid or already used token", relays nothing and  *)
(* changes no record; and with one client, whose uploads never overlap, no  *)
(* token has more than one gist.                                           *)
(***************************************************************************)
GistsOf(token) == {i \in 1..Len(gists) : gists[i].token = token}

Rejected(c, token, files) ==
  UploadFiles(c, token, files, TRUE)
    /\ token # MissingToken /\ Len(files) > 0 /\ ~HasUnused(store, token)

RejectedUntouched ==
  \A c \in Clients, token \in TokenInputs, files \in TokenUploads :
    Rejected(c, token, files)
      => /\ ret' = Uploaded(token, "Invalid or already used token", Null)
         /\ req' = req
         /\ store' = store
         /\ gists' = gists

C23_OneGistPerToken ==
  /\ [](\A token \in TokenInputs : Cardinality(GistsOf(token)) <= 1)
  /\ [][RejectedUntouched]_vars

(***************************************************************************)
(* C23, amended: the rejection is as stated; and with one client a gist is *)
(* created for a token only while a record of the token is unused.  A      *)
(* token can have several gists: a relay whose update of the token fails   *)
(* leaves the token unused.                                                *)
(***************************************************************************)
RelayedWhileUnused ==
  \A c \in Clients :
    CreateGist(c, TRUE) /\ gists' # gists
      => /\ HasUnused(store, req[c].token)
         /\ gists' = Append(gists, NewGist(req[c]))

C23_GistOnlyWhileUnused ==
  [][RejectedUntouched /\ RelayedWhileUnused]_vars

\* The second upload of a used token was rejected; its one gist remains.
C23_Witness ==
  /\ ret = Uploaded("t1", "Invalid or already used token", Null)
  /\ IsUsed(store, "t1")
  /\ ~HasUnused(store, "t1")
  /\ Cardinality(GistsOf("t1")) = 1


(***************************************************************************)
(* C26: no two records of the store carry the same token value, whatever   *)
(* generateToken calls were made; so a validation, a flag write or a       *)
(* consumption never rewrites a record while leaving the record its lookup *)
(* found untouched.                                                        *)
(***************************************************************************)
TokensUnique ==
  \A i, j \in 1..Len(store) : i # j => store[i].token # store[j].token

\* The record the lookup of the request found is the one the update writes.
WritesWhatItFound ==
  \A storeOk \in BOOLEAN :
    (ValidateFlag(IssueClient, storeOk) \/ UseToken(IssueClient, storeOk))
      => \A i \in 1..Len(store) :
           store'[i] # store[i] => i = FindOneUnused(store, req[IssueClient].token)

SecondLinkOverwritesFirst ==
  /\ Len(store) = 2
  /\ store[1].token = store[2].token
  /\ store[1].used
  /\ store[1].gistUrl = GistUrl(2)
  /\ ~store[2].used
  /\ SuccessfulUpload(ret)

====
